---- MODULE Spec2Model ----
(***************************************************************************)
(* Model of cpp_project_setup.py: the project-name validator and the      *)
(* scaffolding workflow of setup_cpp_project together with its __main__    *)
(* wrapper.                                                                *)
(*                                                                         *)
(* Strings that the code inspects character by character (the project     *)
(* name) are sequences of one-character strings.  A path is a record      *)
(* [root, rel]: root is the project name the path starts with and rel the *)
(* sequence of components below it, so Path(name) / "src" / "main.cpp"    *)
(* is [root |-> name, rel |-> <<"src", "main.cpp">>].                     *)
(*                                                                         *)
(* The filesystem is the pair (dirs, files) below the working directory,  *)
(* which starts without the project (a fresh name).  Every call that can  *)
(* fail in the code takes its outcome from the environment with \E.       *)
(***************************************************************************)
EXTENDS Integers, Sequences, FiniteSets, TLC

VARIABLES
    pc,            \* position in setup_cpp_project / __main__
    project_name,  \* local project_name (sequence of characters)
    root_dir,      \* local root_dir
    i,             \* index of the `for subdir in SUBDIRS` loop
    prompts,       \* number of input() calls made so far
    dirs,          \* directories that exist
    files,         \* function: path of an existing file -> its content
    log,           \* records emitted through logging, in order
    exitStatus,    \* process exit status, -1 while running
    vcsOutcome,    \* how the `git init` subprocess ended, "none" before it ran
    candidate,     \* the string given to is_valid_project_name on its own
    verdict        \* its result: "unchecked", "accept", "reject"

vars == <<pc, project_name, root_dir, i, prompts, dirs, files, log,
          exitStatus, vcsOutcome, candidate, verdict>>

-----------------------------------------------------------------------------
(* Bounds *)

MaxLen == 3        \* longest candidate string given to the validator
MaxNameLen == 1    \* longest line typed at the prompt
MaxPrompts == 2    \* most lines read at the prompt in one run

-----------------------------------------------------------------------------
(* Characters and strings *)

LF == "\n"

ClassChars == {"a", "Z", "0", "_", "-"}

OtherChars == {" ", "!", LF}

Alphabet == ClassChars \cup OtherChars

RECURSIVE StringsUpTo(_, _)
StringsUpTo(chars, n) ==
    IF n = 0 THEN {<<>>}
    ELSE LET shorter == StringsUpTo(chars, n - 1)
         IN  shorter \cup {Append(s, c) : s \in shorter, c \in chars}

\* input() returns the line without its terminator, so a typed line never
\* holds a newline.
InputChars == {"a", "!"}

InputLines == StringsUpTo(InputChars, MaxNameLen)

-----------------------------------------------------------------------------
(* is_valid_project_name: re.match(r"^[a-zA-Z0-9_-]+$", name) *)

InClass(c) == c \in ClassChars

\* Python's `$` (no MULTILINE flag) matches at the end of the string and
\* also just before a newline that is the last character of the string.
\* pos is the number of characters consumed so far.
AtDollar(s, pos) ==
    \/ pos = Len(s)
    \/ pos = Len(s) - 1 /\ s[Len(s)] = LF

\* `^` anchors at 0, `[...]+` consumes k >= 1 class characters (with
\* backtracking over k), then `$` must match.
RegexMatch(s) ==
    \E k \in 1..Len(s) :
        /\ \A j \in 1..k : InClass(s[j])
        /\ AtDollar(s, k)

is_valid_project_name(name) == RegexMatch(name)

-----------------------------------------------------------------------------
(* Paths, constants and templates *)

\* Faulty variant: "lib" is missing from the list.
SUBDIRS_WithoutLib == <<"src", "include", "bin", "tests", "docs">>

SUBDIRS == <<"src", "include", "lib", "bin", "tests", "docs">>

NoName == <<>>

NoPath == [root |-> <<>>, rel |-> <<>>]

Path(name) == [root |-> name, rel |-> <<>>]

Join(path, part) == [path EXCEPT !.rel = Append(@, part)]

Parent(path) == [path EXCEPT !.rel = SubSeq(@, 1, Len(@) - 1)]

\* path.mkdir(parents=True): the directory and every missing ancestor
WithParents(path) ==
    {[path EXCEPT !.rel = SubSeq(@, 1, k)] : k \in 0..Len(path.rel)}

\* Contents are kept as (template, interpolated project name) pairs.
GITIGNORE_CONTENT == <<"GITIGNORE_CONTENT", NoName>>

readme_content(name) == <<"readme_content", name>>

root_cmake_content(name) == <<"root_cmake_content", name>>

src_cmake_content == <<"src_cmake_content", NoName>>

tests_cmake_content == <<"tests_cmake_content", NoName>>

docs_cmake_content == <<"docs_cmake_content", NoName>>

main_cpp_content == <<"main_cpp_content", NoName>>

header_content == <<"header_content", NoName>>

test_content == <<"test_content", NoName>>

-----------------------------------------------------------------------------
(* Logging *)

Entry(level, msg, path, detail) ==
    [level |-> level, msg |-> msg, path |-> path, detail |-> detail]

logging_info(msg, path, detail) == Entry("INFO", msg, path, detail)

logging_error(msg, path, detail) == Entry("ERROR", msg, path, detail)

logging_warning(msg, detail) == Entry("WARNING", msg, NoPath, detail)

-----------------------------------------------------------------------------
(* Filesystem writer and VCS initializer.  Each operator gives the result *)
(* of the call in the current state: the returned value, the filesystem   *)
(* after the call and the lines it logs.                                  *)

\* create_directory(path); deny: the OS refuses the mkdir (PermissionError
\* or another OSError).  exist_ok=True makes an existing directory a success.
create_directory(path, deny, ds) ==
    IF deny
    THEN [ok |-> FALSE, dirs |-> ds,
          log |-> <<logging_error("Error creating directory", path, "EACCES")>>]
    ELSE [ok |-> TRUE, dirs |-> ds \cup WithParents(path),
          log |-> <<logging_info("Created directory", path, "")>>]

\* create_file(path, content); write_text raises FileNotFoundError when the
\* parent directory is missing, and deny is the OS refusing the write.
create_file(path, content, deny, ds, fs) ==
    IF Parent(path) \notin ds
    THEN [ok |-> FALSE, files |-> fs,
          log |-> <<logging_error("Error creating file", path, "ENOENT")>>]
    ELSE IF deny
    THEN [ok |-> FALSE, files |-> fs,
          log |-> <<logging_error("Error creating file", path, "EACCES")>>]
    ELSE [ok |-> TRUE, files |-> (path :> content) @@ fs,
          log |-> <<logging_info("Created file", path, "")>>]

\* Outcomes of subprocess.run(["git", "init"], cwd=path, check=True, ...):
\* exit status 0; nonzero exit status; no git on PATH; git found but it
\* cannot be executed (PermissionError, an OSError that is neither of the
\* two classes the handler names).
VcsOutcomes == {"ok", "CalledProcessError", "FileNotFoundError", "PermissionError"}

\* Faulty variant: the handler names CalledProcessError alone.
VcsCaught_WithoutFileNotFound(outcome) == outcome = "CalledProcessError"

\* `except (subprocess.CalledProcessError, FileNotFoundError)`
VcsCaught(outcome) == outcome \in {"CalledProcessError", "FileNotFoundError"}

\* initialize_git_repo(path); raised: the exception leaves the function.
initialize_git_repo(path, outcome, ds) ==
    IF outcome = "ok"
    THEN [ok |-> TRUE, raised |-> FALSE, dirs |-> ds \cup {Join(path, ".git")},
          log |-> <<logging_info("Initialized Git repository in", path, "")>>]
    ELSE IF VcsCaught(outcome)
    THEN [ok |-> FALSE, raised |-> FALSE, dirs |-> ds,
          log |-> <<logging_error("Error initializing Git repository", path, outcome)>>]
    ELSE [ok |-> FALSE, raised |-> TRUE, dirs |-> ds, log |-> <<>>]

\* create_cmake_files(path, project_name); d1..d4: the OS refuses the write
\* of the root, src, tests and docs descriptor.  create_file returns its
\* failure instead of raising, so the four results are dropped, the
\* `except (OSError, IOError)` branch is never entered and the function
\* always logs its last line and returns True.
create_cmake_files(path, name, d1, d2, d3, d4, ds, fs) ==
    LET r1 == create_file(Join(path, "CMakeLists.txt"),
                          root_cmake_content(name), d1, ds, fs)
        r2 == create_file(Join(Join(path, "src"), "CMakeLists.txt"),
                          src_cmake_content, d2, ds, r1.files)
        r3 == create_file(Join(Join(path, "tests"), "CMakeLists.txt"),
                          tests_cmake_content, d3, ds, r2.files)
        r4 == create_file(Join(Join(path, "docs"), "CMakeLists.txt"),
                          docs_cmake_content, d4, ds, r3.files)
    IN  [ok |-> TRUE, files |-> r4.files,
         log |-> r1.log \o r2.log \o r3.log \o r4.log
                 \o <<logging_info("Created CMakeLists.txt files.", NoPath, "")>>]

-----------------------------------------------------------------------------
(* setup_cpp_project and __main__ *)

Terminal == {"Completed", "Aborted", "Crashed"}

Init ==
    /\ pc = "start"
    /\ project_name = NoName
    /\ root_dir = NoPath
    /\ i = 0
    /\ prompts = 0
    /\ dirs = {}
    /\ files = [p \in {} |-> <<>>]
    /\ log = <<>>
    /\ exitStatus = -1
    /\ vcsOutcome = "none"
    /\ candidate = <<>>
    /\ verdict = "unchecked"

\* The two banner lines.
Start ==
    /\ pc = "start"
    /\ log' = log \o <<logging_info("C++ Project Setup Tool", NoPath, ""),
                       logging_info("======================", NoPath, "")>>
    /\ pc' = "prompt"
    /\ UNCHANGED <<project_name, root_dir, i, prompts, dirs, files, exitStatus,
                   vcsOutcome, candidate, verdict>>

\* One iteration of the `while True` loop: input() returns a line.
Prompt ==
    /\ pc = "prompt"
    /\ prompts < MaxPrompts
    /\ \E line \in InputLines :
        /\ project_name' = line
        /\ prompts' = prompts + 1
        /\ IF line = <<>>
           THEN /\ log' = Append(log, logging_error(
                               "Project name cannot be empty. Please try again.",
                               NoPath, ""))
                /\ pc' = "prompt"
           ELSE IF ~is_valid_project_name(line)
           THEN /\ log' = Append(log, logging_error(
                               "Invalid project name.", NoPath, ""))
                /\ pc' = "prompt"
           ELSE /\ log' = log
                /\ pc' = "create_root"
    /\ UNCHANGED <<root_dir, i, dirs, files, exitStatus, vcsOutcome, candidate, verdict>>

\* input() raises KeyboardInterrupt while it waits for the line; __main__
\* catches it, logs the abort and exits 1.
PromptInterrupt ==
    /\ pc = "prompt"
    /\ log' = Append(log, logging_error("Setup aborted by user.", NoPath, ""))
    /\ pc' = "Aborted"
    /\ exitStatus' = 1
    /\ UNCHANGED <<project_name, root_dir, i, prompts, dirs, files,
                   vcsOutcome, candidate, verdict>>

\* input() raises EOFError at end of input; nothing catches it, the
\* interpreter prints the traceback and exits 1.
PromptEndOfInput ==
    /\ pc = "prompt"
    /\ pc' = "Crashed"
    /\ exitStatus' = 1
    /\ UNCHANGED <<project_name, root_dir, i, prompts, dirs, files, log,
                   vcsOutcome, candidate, verdict>>

CreateRoot ==
    /\ pc = "create_root"
    /\ \E deny \in BOOLEAN :
        LET r == create_directory(Path(project_name), deny, dirs)
        IN  /\ root_dir' = Path(project_name)
            /\ dirs' = r.dirs
            /\ IF r.ok
               THEN /\ log' = log \o r.log
                    /\ pc' = "subdirs"
                    /\ i' = 1
                    /\ UNCHANGED exitStatus
               ELSE /\ log' = log \o r.log \o <<logging_error(
                               "Failed to create project directory. Setup aborted.",
                               NoPath, "")>>
                    /\ pc' = "Aborted"
                    /\ exitStatus' = 0
                    /\ UNCHANGED i
    /\ UNCHANGED <<project_name, prompts, files, vcsOutcome, candidate, verdict>>

\* Where the loop goes after the iteration for SUBDIRS[idx]: the body has
\* no break and no return, so the result ok of create_directory plays no
\* part.
\* Faulty variant: the loop is left at the first subdirectory that fails.
AfterSubdir_BreakOnFailure(ok, idx) ==
    IF ~ok \/ idx = Len(SUBDIRS) THEN "init_vcs" ELSE "subdirs"

AfterSubdir(ok, idx) == IF idx = Len(SUBDIRS) THEN "init_vcs" ELSE "subdirs"

\* One iteration of `for subdir in SUBDIRS`.
CreateSubdir ==
    /\ pc = "subdirs"
    /\ \E deny \in BOOLEAN :
        LET subdir == SUBDIRS[i]
            r == create_directory(Join(root_dir, subdir), deny, dirs)
        IN  /\ dirs' = r.dirs
            /\ log' = log \o r.log \o
                      (IF r.ok THEN <<>>
                       ELSE <<logging_warning("Failed to create %s directory.", subdir)>>)
            /\ pc' = AfterSubdir(r.ok, i)
    /\ i' = i + 1
    /\ UNCHANGED <<project_name, root_dir, prompts, files, exitStatus,
                   vcsOutcome, candidate, verdict>>

\* An exception that initialize_git_repo does not catch leaves
\* setup_cpp_project too; __main__ catches KeyboardInterrupt only, so the
\* interpreter prints the traceback and exits 1.
InitVCS ==
    /\ pc = "init_vcs"
    /\ \E outcome \in VcsOutcomes :
        LET r == initialize_git_repo(root_dir, outcome, dirs)
        IN  /\ vcsOutcome' = outcome
            /\ dirs' = r.dirs
            /\ IF r.raised
               THEN /\ pc' = "Crashed"
                    /\ exitStatus' = 1
                    /\ log' = log
               ELSE /\ pc' = "gitignore"
                    /\ UNCHANGED exitStatus
                    /\ log' = log \o r.log \o
                              (IF r.ok THEN <<>>
                               ELSE <<logging_warning(
                                       "Failed to initialize Git repository.", "")>>)
    /\ UNCHANGED <<project_name, root_dir, i, prompts, files, candidate, verdict>>

\* `if not create_file(path, content): logging.warning(...)`
EmitFile(here, next, path, content, what) ==
    /\ pc = here
    /\ \E deny \in BOOLEAN :
        LET r == create_file(path, content, deny, dirs, files)
        IN  /\ files' = r.files
            /\ log' = log \o r.log \o
                      (IF r.ok THEN <<>>
                       ELSE <<logging_warning("Failed to create file.", what)>>)
    /\ pc' = next
    /\ UNCHANGED <<project_name, root_dir, i, prompts, dirs, exitStatus,
                   vcsOutcome, candidate, verdict>>

CreateGitignore ==
    EmitFile("gitignore", "readme", Join(root_dir, ".gitignore"),
             GITIGNORE_CONTENT, ".gitignore")

CreateReadme ==
    EmitFile("readme", "cmake", Join(root_dir, "README.md"),
             readme_content(project_name), "README.md")

CreateCMake ==
    /\ pc = "cmake"
    /\ \E d1, d2, d3, d4 \in BOOLEAN :
        LET r == create_cmake_files(root_dir, project_name, d1, d2, d3, d4,
                                    dirs, files)
        IN  /\ files' = r.files
            /\ log' = log \o r.log \o
                      (IF r.ok THEN <<>>
                       ELSE <<logging_warning("Failed to create file.",
                                              "CMakeLists.txt")>>)
    /\ pc' = "main_cpp"
    /\ UNCHANGED <<project_name, root_dir, i, prompts, dirs, exitStatus,
                   vcsOutcome, candidate, verdict>>

CreateMainCpp ==
    EmitFile("main_cpp", "header", Join(Join(root_dir, "src"), "main.cpp"),
             main_cpp_content, "main.cpp")

CreateHeader ==
    EmitFile("header", "test", Join(Join(root_dir, "include"), "project_header.h"),
             header_content, "header")

CreateTest ==
    EmitFile("test", "report", Join(Join(root_dir, "tests"), "test_main.cpp"),
             test_content, "test")

\* The names the final summary lists below the project directory.
SummaryNames ==
    SUBDIRS \o <<".gitignore", "README.md", "CMakeLists.txt">>

\* The closing block of logging.info calls; the function then returns and
\* the process exits 0.
Report ==
    /\ pc = "report"
    /\ log' = log
              \o <<logging_info("Project setup complete!", NoPath, ""),
                   logging_info("Project has been created with the following structure:",
                                Path(project_name), ""),
                   logging_info("summary root", Path(project_name), "")>>
              \o [k \in 1..Len(SummaryNames) |->
                      logging_info("summary", NoPath, SummaryNames[k])]
              \o <<logging_info("You can now navigate to your project directory",
                                Path(project_name), "")>>
    /\ pc' = "Completed"
    /\ exitStatus' = 0
    /\ UNCHANGED <<project_name, root_dir, i, prompts, dirs, files,
                   vcsOutcome, candidate, verdict>>

Next ==
    \/ Start
    \/ Prompt
    \/ PromptInterrupt
    \/ PromptEndOfInput
    \/ CreateRoot
    \/ CreateSubdir
    \/ InitVCS
    \/ CreateGitignore
    \/ CreateReadme
    \/ CreateCMake
    \/ CreateMainCpp
    \/ CreateHeader
    \/ CreateTest
    \/ Report

Spec == Init /\ [][Next]_vars

-----------------------------------------------------------------------------
(* The validator on its own: a candidate string is drawn from every string *)
(* of at most MaxLen characters and is_valid_project_name is applied to it. *)

InitValidator ==
    /\ candidate \in StringsUpTo(Alphabet, MaxLen)
    /\ verdict = "unchecked"
    /\ pc = "validator"
    /\ project_name = NoName
    /\ root_dir = NoPath
    /\ i = 0
    /\ prompts = 0
    /\ dirs = {}
    /\ files = [p \in {} |-> <<>>]
    /\ log = <<>>
    /\ exitStatus = -1
    /\ vcsOutcome = "none"

Validate ==
    /\ verdict = "unchecked"
    /\ verdict' = IF is_valid_project_name(candidate) THEN "accept" ELSE "reject"
    /\ UNCHANGED <<pc, project_name, root_dir, i, prompts, dirs, files, log,
                   exitStatus, vcsOutcome, candidate>>

NextValidator == Validate

SpecValidator == InitValidator /\ [][NextValidator]_vars

-----------------------------------------------------------------------------
(* Vocabulary of the properties *)

Logged(level, msg, path, detail) ==
    \E k \in 1..Len(log) : log[k] = Entry(level, msg, path, detail)

\* create_directory reported a failure for path
MkdirFailed(path) ==
    \E k \in 1..Len(log) :
        log[k].msg = "Error creating directory" /\ log[k].path = path

\* create_file reported a failure for path
WriteFailed(path) ==
    \E k \in 1..Len(log) :
        log[k].msg = "Error creating file" /\ log[k].path = path

\* the OS itself refused the write of path (its directory was there)
WriteDenied(path) ==
    Logged("ERROR", "Error creating file", path, "EACCES")

SixSubdirs == {"src", "include", "lib", "bin", "tests", "docs"}

\* The nine generated files: path, content, and the name the orchestrator's
\* warning uses for the file.
NineFiles ==
    LET n == project_name
        r == Path(project_name)
    IN  { <<Join(r, ".gitignore"), GITIGNORE_CONTENT, ".gitignore">>,
          <<Join(r, "README.md"), readme_content(n), "README.md">>,
          <<Join(r, "CMakeLists.txt"), root_cmake_content(n), "CMakeLists.txt">>,
          <<Join(Join(r, "src"), "CMakeLists.txt"), src_cmake_content, "CMakeLists.txt">>,
          <<Join(Join(r, "tests"), "CMakeLists.txt"), tests_cmake_content, "CMakeLists.txt">>,
          <<Join(Join(r, "docs"), "CMakeLists.txt"), docs_cmake_content, "CMakeLists.txt">>,
          <<Join(Join(r, "src"), "main.cpp"), main_cpp_content, "main.cpp">>,
          <<Join(Join(r, "include"), "project_header.h"), header_content, "header">>,
          <<Join(Join(r, "tests"), "test_main.cpp"), test_content, "test">> }

Produced(f) == f[1] \in DOMAIN files /\ files[f[1]] = f[2]

RootCreated == pc \notin {"start", "prompt", "create_root"} /\ Path(project_name) \in dirs

\* A run that has not ended can take a step.
CanProceed == pc \in Terminal \/ ENABLED Next

-----------------------------------------------------------------------------
(* C1 *)

AllInClass(s) == \A j \in 1..Len(s) : s[j] \in {"a", "Z", "0", "_", "-"}

\* C1: is_valid_project_name accepts a string if and only if the string is
\* non-empty and every one of its characters is a letter, a digit, an
\* underscore or a hyphen; a string with any other character in any
\* position, the last included, is rejected, and so is the empty string.
C1_AcceptsExactlyClassStrings ==
    verdict # "unchecked" =>
        ((verdict = "accept") <=> (Len(candidate) > 0 /\ AllInClass(candidate)))

-----------------------------------------------------------------------------
(* C2 *)

\* C2: once the root directory has been created, a run ends only by
\* reaching the report (Completed), whatever the outcomes of the subdirectory
\* creations, of the VCS initialization and of the file writes: it never
\* ends Aborted or otherwise before the report.
C2_RootCreatedEndsCompleted ==
    (RootCreated /\ pc \in Terminal) => pc = "Completed"

-----------------------------------------------------------------------------
(* C3 *)

RootFailed == root_dir # NoPath /\ MkdirFailed(root_dir)

\* C3: if creating the root directory fails the run is Aborted at once, with
\* the error logged and with no subdirectory, VCS, file or report step
\* made; and a run that ends without completing after the name was accepted
\* has ended so because root creation failed, the only fatal step.
C3_OnlyRootFailureAborts ==
    /\ RootFailed =>
          /\ pc = "Aborted"
          /\ log[Len(log)] = logging_error(
                 "Failed to create project directory. Setup aborted.", NoPath, "")
          /\ dirs = {}
          /\ DOMAIN files = {}
          /\ vcsOutcome = "none"
          /\ ~Logged("INFO", "Project setup complete!", NoPath, "")
    /\ (pc \in {"Aborted", "Crashed"} /\ root_dir # NoPath) => RootFailed

-----------------------------------------------------------------------------
(* C4 *)

VcsAbsent == vcsOutcome = "FileNotFoundError"

\* C4: when the VCS binary is absent the run is never aborted and always
\* goes on to Completed, and at Completed every one of the nine files whose
\* write the filesystem permitted exists with its template content, exactly
\* as after a successful VCS initialization: the VCS failure costs a logged
\* error and a warning and nothing else.
C4_VcsAbsentStillEmitsFiles ==
    VcsAbsent =>
        /\ pc \notin {"Aborted", "Crashed"}
        /\ CanProceed
        /\ Logged("WARNING", "Failed to initialize Git repository.", NoPath, "")
        /\ pc = "Completed" =>
              \A f \in NineFiles :
                  IF Parent(f[1]) \in dirs /\ ~WriteDenied(f[1])
                  THEN Produced(f)
                  ELSE f[1] \notin DOMAIN files

C4_Witness ==
    /\ pc = "Completed"
    /\ VcsAbsent
    /\ \A f \in NineFiles : Produced(f)

-----------------------------------------------------------------------------
(* C5 *)

\* The creation of subdirectory d failed and nothing else was refused: no
\* other mkdir failed, no write was refused by the OS and the VCS
\* initialization, if it has run, succeeded.
OnlySubdirFailed(d) ==
    /\ RootCreated
    /\ MkdirFailed(Join(root_dir, d))
    /\ \A k \in 1..Len(log) :
          /\ log[k].msg = "Error creating directory" => log[k].path = Join(root_dir, d)
          /\ log[k].msg = "Error creating file" => log[k].detail = "ENOENT"
    /\ vcsOutcome \in {"none", "ok"}

\* C5 as stated: with exactly one subdirectory creation failing, at the
\* end of the run all nine files have been created.
C5_AllFilesDespiteSubdirFailure ==
    \A d \in SixSubdirs :
        (OnlySubdirFailed(d) /\ pc = "Completed") =>
            \A f \in NineFiles : Produced(f)

\* C5 (amended): with exactly one subdirectory creation failing the run
\* still completes, the warning for that subdirectory is logged, every other
\* subdirectory is created, and every file outside the failed subdirectory
\* is created; the files that belong inside the failed subdirectory are not.
C5_FilesOutsideFailedSubdir ==
    \A d \in SixSubdirs :
        OnlySubdirFailed(d) =>
            /\ pc \notin {"Aborted", "Crashed"}
            /\ CanProceed
            /\ Logged("WARNING", "Failed to create %s directory.", NoPath, d)
            /\ pc = "Completed" =>
                  /\ \A e \in SixSubdirs \ {d} : Join(root_dir, e) \in dirs
                  /\ Join(root_dir, d) \notin dirs
                  /\ \A f \in NineFiles :
                        IF Parent(f[1]) = Join(root_dir, d)
                        THEN f[1] \notin DOMAIN files
                        ELSE Produced(f)

C5_Witness ==
    /\ pc = "Completed"
    /\ OnlySubdirFailed("src")
    /\ Join(Join(root_dir, "tests"), "test_main.cpp") \in DOMAIN files
    /\ Join(Join(root_dir, "src"), "main.cpp") \notin DOMAIN files

-----------------------------------------------------------------------------
(* C6 *)

\* Every operation of the run succeeded.
AllSucceeded ==
    /\ pc = "Completed"
    /\ vcsOutcome = "ok"
    /\ \A k \in 1..Len(log) : log[k].level = "INFO"

SixSubdirPaths == {Join(Path(project_name), d) : d \in SixSubdirs}

\* C6 as stated: after a run in which everything succeeded the project
\* directory holds the six subdirectories and the nine files and no other
\* entry.
C6_ExactlySubdirsAndFiles ==
    AllSucceeded =>
        /\ dirs = {Path(project_name)} \cup SixSubdirPaths
        /\ DOMAIN files = {f[1] : f \in NineFiles}

\* C6 (amended): after a run in which everything succeeded the project
\* directory holds the six subdirectories, the nine files with their
\* template contents, and the .git directory that the successful VCS
\* initialization created, and no other entry.
C6_SubdirsFilesAndGit ==
    AllSucceeded =>
        /\ dirs = {Path(project_name)} \cup SixSubdirPaths
                    \cup {Join(Path(project_name), ".git")}
        /\ DOMAIN files = {f[1] : f \in NineFiles}
        /\ \A f \in NineFiles : Produced(f)

C6_Witness ==
    /\ AllSucceeded
    /\ Join(Path(project_name), ".git") \in dirs
    /\ Cardinality(DOMAIN files) = 9

-----------------------------------------------------------------------------
(* C7 *)

\* C7: at the end of a run, every file whose write failed has a warning of
\* the orchestrator naming it; for the four CMakeLists.txt files that is the
\* CMake warning, issued because create_cmake_files returned False.
C7_EveryFailedWriteWarned ==
    pc = "Completed" =>
        \A f \in NineFiles :
            WriteFailed(f[1]) =>
                Logged("WARNING", "Failed to create file.", NoPath, f[3])

-----------------------------------------------------------------------------
(* C8 *)

\* C8: the prompt is left only with an accepted, non-empty name, which then
\* becomes the root path, or by a user interrupt that ends the run Aborted
\* with a nonzero exit status; a rejected line keeps the run at the prompt,
\* and nothing touches the filesystem or the VCS while the run is there.
C8_PromptLeftOnlyByAcceptOrInterrupt ==
    /\ [][(pc = "prompt" /\ pc' # "prompt") =>
             \/ /\ pc' = "create_root"
                /\ project_name' # <<>>
                /\ is_valid_project_name(project_name')
                /\ exitStatus' = -1
             \/ /\ pc' = "Aborted"
                /\ exitStatus' > 0
                /\ log'[Len(log')] = logging_error("Setup aborted by user.", NoPath, "")
         ]_vars
    /\ [][pc = "create_root" => root_dir' = Path(project_name)]_vars
    /\ [](pc = "prompt" => (dirs = {} /\ DOMAIN files = {} /\ vcsOutcome = "none"))

-----------------------------------------------------------------------------
(* C9 *)

OpMessages ==
    {"Created directory", "Error creating directory",
     "Initialized Git repository in", "Error initializing Git repository",
     "Created file", "Error creating file", "Project setup complete!"}

OpKind(e) ==
    CASE e.msg \in {"Created directory", "Error creating directory"} -> "mkdir"
      [] e.msg \in {"Initialized Git repository in",
                    "Error initializing Git repository"} -> "git init"
      [] e.msg \in {"Created file", "Error creating file"} -> "write"
      [] OTHER -> "report"

IsOp(e) == e.msg \in OpMessages

\* The operations the log shows, in the order they were made.
Attempted ==
    LET ops == SelectSeq(log, IsOp)
    IN  [k \in 1..Len(ops) |-> <<OpKind(ops[k]), ops[k].path>>]

FixedOrder ==
    LET r == root_dir
    IN  << <<"mkdir", r>>,
           <<"mkdir", Join(r, "src")>>, <<"mkdir", Join(r, "include")>>,
           <<"mkdir", Join(r, "lib")>>, <<"mkdir", Join(r, "bin")>>,
           <<"mkdir", Join(r, "tests")>>, <<"mkdir", Join(r, "docs")>>,
           <<"git init", r>>,
           <<"write", Join(r, ".gitignore")>>,
           <<"write", Join(r, "README.md")>>,
           <<"write", Join(r, "CMakeLists.txt")>>,
           <<"write", Join(Join(r, "src"), "CMakeLists.txt")>>,
           <<"write", Join(Join(r, "tests"), "CMakeLists.txt")>>,
           <<"write", Join(Join(r, "docs"), "CMakeLists.txt")>>,
           <<"write", Join(Join(r, "src"), "main.cpp")>>,
           <<"write", Join(Join(r, "include"), "project_header.h")>>,
           <<"write", Join(Join(r, "tests"), "test_main.cpp")>>,
           <<"report", NoPath>> >>

IsPrefix(s, t) == Len(s) <= Len(t) /\ s = SubSeq(t, 1, Len(s))

\* C9: the operations made are always an initial part of the one fixed
\* order, none repeated or revisited, and once the root directory exists
\* every operation of the order is made exactly once before the run ends,
\* whichever of the earlier ones failed.
C9_EveryOperationOnceInOrder ==
    /\ IsPrefix(Attempted, FixedOrder)
    /\ (RootCreated /\ pc \in Terminal) => Attempted = FixedOrder

-----------------------------------------------------------------------------
(* C10 *)

\* C10: every subdirectory and file that the summary of a completed run
\* names was created during the run.
C10_SummaryNamesOnlyCreated ==
    pc = "Completed" =>
        \A k \in 1..Len(log) :
            log[k].msg = "summary" =>
                Join(root_dir, log[k].detail) \in (dirs \cup DOMAIN files)

====
